---- MODULE Spec2Model ----
(***************************************************************************)
(* A model of the SMBus handle of src/smbus.go (package smbus_go): one     *)
(* SMBus value, the kernel behind its file descriptor, and every exported  *)
(* operation as one atomic action when one goroutine uses the handle, and   *)
(* ReadByte step by step when two goroutines share it.                     *)
(* Every action records what it did in the history variable last: its      *)
(* arguments, the handle before the call, the kernel calls it issued in    *)
(* order, and what it returned.                                            *)
(***************************************************************************)
EXTENDS Integers, Sequences, FiniteSets, TLC

\* ------------------------------------------------------------- constants
I2CSlave == 1795
I2CSlaveForce == 1798
I2CFuncs == 1797
I2CRDWR == 1799
I2CSMBus == 1824
I2CPEC == 1800

I2CSMBusWrite == 0
I2CSMBusRead == 1

I2CSMBusQuick == 0
I2CSMBusByte == 1
I2CSMBusByteData == 2
I2CSMBusWordData == 3
I2CSMBusProcCall == 4
I2CSMBusBlockData == 5
I2CSMBusBlockProcCall == 7
I2CSMBusI2CBlockData == 8
I2CSMBusBlockMax == 32

I2CFlag == 1
Addr10BitFlag == 2
ProtocolManglingFlag == 4
SMBusPECFlag == 8
NoStartFlag == 16
SlaveFlag == 32
SMBusBlockProcCallFlag == 32768
SMBusQuickFlag == 65536
SMBusReadByteFlag == 131072
SMBusWriteByteFlag == 262144
SMBusReadByteDataFlag == 524288
SMBusWriteByteDataFlag == 1048576
SMBusReadWordDataFlag == 2097152
SMBusWriteWordDataFlag == 4194304
SMBusProcCallFlag == 8388608
SMBusReadBlockDataFlag == 16777216
SMBusWriteBlockDataFlag == 33554432
SMBusReadI2CBlockFlag == 67108864
SMBusWriteI2CBlockFlag == 134217728
SMBusHostNotifyFlag == 268435456
SMBusByteFlag == 393216
SMBusByteDataFlag == 1572864
SMBusWordDataFlag == 6291456
SMBusBlockDataFlag == 50331648
SMBusI2CBlockFlag == 201326592
SMBusEmulFlag == 251592712
I2CMRD == 1

\* --------------------------------------------------------------- bounds
\* Slave addresses a caller passes: 0..MaxAddr.
MaxAddr == 1
\* Payloads are tried up to MaxOver bytes above the 32-byte block limit.
MaxOver == 1
\* The longest message list handed to I2CRdWr.
MaxMsgs == 2


\* ------------------------------------------------------ the data union
\* union i2c_smbus_data: a byte, a word, or block[I2C_SMBUS_BLOCK_MAX + 2].
\* Go sees it as a byte array; index i of the Go array is index i+1 here.
UnionSize == I2CSMBusBlockMax + 2

\* var data C.union_i2c_smbus_data: zero-initialised.
ZeroData == [i \in 1..UnionSize |-> 0]

\* data[i] = v, for a Go index i.
SetByte(data, i, v) == [data EXCEPT ![i + 1] = v]

\* data[lo:hi], for Go indices lo <= hi.
Slice(data, lo, hi) == SubSeq(data, lo + 1, hi)

\* copy(data[1:length+1], values)
CopyBlock(data, length, values) ==
    [i \in 1..UnionSize |->
        IF i >= 2 /\ i <= length + 1 /\ i - 1 <= Len(values)
        THEN values[i - 1] ELSE data[i]]

\* b.nativeByteOrder.PutUint16(data[:], value)
PutUint16(order, data, value) ==
    IF order = "little"
    THEN SetByte(SetByte(data, 0, value % 256), 1, value \div 256)
    ELSE SetByte(SetByte(data, 0, value \div 256), 1, value % 256)

\* A decoding fixed to little-endian, whatever the host.
Uint16LittleEndian(order, data) == data[1] + 256 * data[2]

\* b.nativeByteOrder.Uint16(data[:])
Uint16(order, data) ==
    IF order = "little"
    THEN data[1] + 256 * data[2]
    ELSE 256 * data[1] + data[2]

\* ------------------------------------------------------- capability bits
RECURSIVE BitAnd(_, _)
BitAnd(x, y) ==
    IF x = 0 \/ y = 0 THEN 0
    ELSE (IF x % 2 = 1 /\ y % 2 = 1 THEN 1 ELSE 0) + 2 * BitAnd(x \div 2, y \div 2)

\* A test for any of the bits instead of all of them.
BitsSetAny(f, bits) == BitAnd(f, bits) # 0

\* (uint32(f) & bits) == bits
BitsSet(f, bits) == BitAnd(f, bits) = bits

\* func getSingleFlagName
getSingleFlagName(bits) ==
    CASE bits = I2CFlag -> "I2C"
      [] bits = Addr10BitFlag -> "10-bit address"
      [] bits = ProtocolManglingFlag -> "Protocol mangling"
      [] bits = SMBusPECFlag -> "SMBus PEC"
      [] bits = NoStartFlag -> "No start"
      [] bits = SlaveFlag -> "Slave"
      [] bits = SMBusBlockProcCallFlag -> "Block procedure call"
      [] bits = SMBusQuickFlag -> "Quick"
      [] bits = SMBusReadByteFlag -> "Read byte"
      [] bits = SMBusWriteByteFlag -> "Write byte"
      [] bits = SMBusReadByteDataFlag -> "Read byte data"
      [] bits = SMBusWriteByteDataFlag -> "Write byte data"
      [] bits = SMBusReadWordDataFlag -> "Read word data"
      [] bits = SMBusWriteWordDataFlag -> "Write word data"
      [] bits = SMBusProcCallFlag -> "Procedure call"
      [] bits = SMBusReadBlockDataFlag -> "Read block data"
      [] bits = SMBusWriteBlockDataFlag -> "Write block data"
      [] bits = SMBusReadI2CBlockFlag -> "Read I2C block"
      [] bits = SMBusWriteI2CBlockFlag -> "Write I2C block"
      [] bits = SMBusHostNotifyFlag -> "Host notify"
      [] bits = SMBusByteFlag -> "Byte"
      [] bits = SMBusByteDataFlag -> "Byte data"
      [] bits = SMBusWordDataFlag -> "Word data"
      [] bits = SMBusBlockDataFlag -> "Block data"
      [] bits = SMBusI2CBlockFlag -> "I2C block"
      [] bits = SMBusEmulFlag -> "Emulated"
      [] OTHER -> "Unknown flag bits"

\* A table that lacks the composite entry for Byte.
flagsWithoutByte ==
    <<I2CFlag, Addr10BitFlag, ProtocolManglingFlag, SMBusPECFlag, NoStartFlag,
      SlaveFlag, SMBusBlockProcCallFlag, SMBusQuickFlag, SMBusReadByteFlag,
      SMBusWriteByteFlag, SMBusReadByteDataFlag, SMBusWriteByteDataFlag,
      SMBusReadWordDataFlag, SMBusWriteWordDataFlag, SMBusProcCallFlag,
      SMBusReadBlockDataFlag, SMBusWriteBlockDataFlag, SMBusReadI2CBlockFlag,
      SMBusWriteI2CBlockFlag, SMBusHostNotifyFlag, SMBusByteDataFlag,
      SMBusWordDataFlag, SMBusBlockDataFlag, SMBusI2CBlockFlag, SMBusEmulFlag>>

\* flags := []uint32{...} of GetStringsList
flags ==
    <<I2CFlag, Addr10BitFlag, ProtocolManglingFlag, SMBusPECFlag, NoStartFlag,
      SlaveFlag, SMBusBlockProcCallFlag, SMBusQuickFlag, SMBusReadByteFlag,
      SMBusWriteByteFlag, SMBusReadByteDataFlag, SMBusWriteByteDataFlag,
      SMBusReadWordDataFlag, SMBusWriteWordDataFlag, SMBusProcCallFlag,
      SMBusReadBlockDataFlag, SMBusWriteBlockDataFlag, SMBusReadI2CBlockFlag,
      SMBusWriteI2CBlockFlag, SMBusHostNotifyFlag, SMBusByteFlag,
      SMBusByteDataFlag, SMBusWordDataFlag, SMBusBlockDataFlag,
      SMBusI2CBlockFlag, SMBusEmulFlag>>

\* func (f FunctionFlags) GetStringsList: for each flag of the table in order,
\* the name is appended if f.BitsSet(flag).
GetStringsList(f) ==
    LET set == SelectSeq(flags, LAMBDA flag : BitsSet(f, flag))
    IN [i \in 1..Len(set) |-> getSingleFlagName(set[i])]

\* ------------------------------------------------------------- the state
VARIABLES
    state,   \* "none": no handle yet; "open"; "closed": Close was called
    bus,     \* the SMBus struct
    kern,    \* the kernel side of the descriptor
    last,    \* history: the last operation
    thr,     \* the goroutines that share the handle: where each one is in its
             \* operation, the caller's mutex, and the last block submitted
    written, \* history: the value of the last word written successfully, or -1
    prevTx   \* history: the latest transaction before the last operation, if it
             \* succeeded

vars == <<state, bus, kern, last, thr, written, prevTx>>

\* The descriptor syscall.Open returns.
TheFd == 3

\* The kernel has been told no slave address for the descriptor.
NoSel == [addr |-> -1, mode |-> "none"]

NoBlock == [read_write |-> -1, command |-> -1, size |-> -1, data |-> <<>>]

\* type SMBus struct
NewBus(fd, funcs, order) ==
    [fd |-> fd, Funcs |-> funcs, address |-> 0, Force |-> FALSE,
     prevForce |-> FALSE, pecEnabled |-> FALSE, nativeByteOrder |-> order]

\* What the kernel holds: the open descriptors, and per descriptor the slave
\* address selected by the last successful I2C_SLAVE / I2C_SLAVE_FORCE call,
\* the PEC switch, and the two bytes of the last word written to the device.
NewKern == [nfds |-> 0, sel |-> NoSel, pec |-> FALSE, word |-> <<0, 0>>]

\* One ioctl as the kernel saw it: the command, its argument (a number, a
\* control block or a message list), whether it succeeded, and the slave
\* address selected at that moment.
Call(cmd, arg, block, msgs, ok, k) ==
    [cmd |-> cmd, arg |-> arg, block |-> block, msgs |-> msgs, ok |-> ok,
     sel |-> k.sel]

\* func ioctl: the call fails on a closed descriptor (fd = -1), and otherwise
\* succeeds or fails as the kernel decides (kernelOk).
IoctlOk(b, kernelOk) == b.fd # -1 /\ kernelOk

\* What is recorded of an operation.
Last(op, pre, args, calls, err, ret, retData, resp) ==
    [op |-> op, pre |-> pre, address |-> args.address,
     register |-> args.register, value |-> args.value, values |-> args.values,
     length |-> args.length, enable |-> args.enable, messages |-> args.messages,
     calls |-> calls, err |-> err, ret |-> ret, retData |-> retData,
     resp |-> resp, fds |-> kern.nfds, closed |-> (state = "closed")]

NoArgs ==
    [address |-> 0, register |-> 0, value |-> 0, values |-> <<>>, length |-> 0,
     enable |-> FALSE, messages |-> <<>>]

\* The SMBus transactions: the operations that go through setAddress.
TxOps ==
    {"WriteQuick", "ReadByte", "WriteByte", "ReadByteData", "WriteByteData",
     "ReadWordData", "WriteWordData", "ProcessCall", "ReadBlockData",
     "WriteBlockData", "BlockProcessCall", "ReadI2CBlockData",
     "WriteI2CBlockData"}

SelectCmds == {I2CSlave, I2CSlaveForce}

\* The calls of an operation that carry one of the commands cmds, in order.
CallsOf(l, cmds) == SelectSeq(l.calls, LAMBDA c : c.cmd \in cmds)

NoTx == [ok |-> FALSE, address |-> 0, force |-> FALSE]

\* What is remembered of a transaction l once another operation follows it:
\* whether it succeeded and, if so, the address and Force flag it ran with.
TxSummary(l) ==
    IF l.err = "nil"
    THEN [ok |-> TRUE, address |-> l.address, force |-> l.pre.Force]
    ELSE NoTx

\* The history of transactions moves on when an operation starts.
PrevTxNext == IF last.op \in TxOps THEN TxSummary(last) ELSE prevTx

\* The goroutines that may share the handle.
Threads == {1, 2}

\* No goroutine is inside an operation; sync says whether the callers wrap
\* every operation in one mutex.
NoThreads(sync) ==
    [pc |-> [t \in Threads |-> "idle"], sync |-> sync, lock |-> 0,
     submit |-> [thread |-> 0, address |-> 0, ok |-> FALSE, sel |-> NoSel]]

InitWith(sync) ==
    /\ state = "none"
    /\ bus = NewBus(-1, 0, "little")
    /\ kern = NewKern
    /\ last = Last("none", bus, NoArgs, <<>>, "nil", 0, <<>>, <<>>)
    /\ thr = NoThreads(sync)
    /\ written = -1
    /\ prevTx = NoTx

\* The handle in the hands of one goroutine.
Init == InitWith(FALSE)

\* ------------------------------------------------------------- lifecycle
\* A syscall.Close that leaves the descriptor open.
ReleaseFdLeak(k) == k

\* syscall.Close(fd) on an open descriptor: the kernel drops it, and with it
\* the slave address selected for it.
ReleaseFd(k) == [k EXCEPT !.nfds = @ - 1, !.sel = NoSel]

\* A Close that keeps the descriptor number in the handle.
ClosedBusKeepsFd(b) == b

\* b.fd = -1
ClosedBus(b) == [b EXCEPT !.fd = -1]

\* func NewSMBusWithPath; the call's argument is the mask the kernel wrote to
\* funcs. P.funcs are the capability masks the get-functions
\* call may report, P.orders the byte orders the host may have.
NewSMBusWithPath(P) ==
    /\ state = "none"
    /\ prevTx' = PrevTxNext
    /\ UNCHANGED thr
    /\ \E openOk \in BOOLEAN, funcsOk \in BOOLEAN, funcs \in P.funcs,
          order \in P.orders :
        LET opened == [kern EXCEPT !.nfds = @ + 1]
            call == Call(I2CFuncs, IF funcsOk THEN funcs ELSE 0, NoBlock, <<>>,
                         funcsOk, opened)
        IN IF ~openOk
           THEN /\ last' = Last("Open", bus, NoArgs, <<>>, "open", 0, <<>>, <<>>)
                /\ UNCHANGED <<state, bus, kern, written>>
           ELSE IF ~funcsOk
           THEN /\ kern' = ReleaseFd(opened)
                /\ last' = Last("Open", bus, NoArgs, <<call>>, "funcs", 0, <<>>, <<>>)
                /\ UNCHANGED <<state, bus, written>>
           ELSE /\ state' = "open"
                /\ bus' = NewBus(TheFd, funcs, order)
                /\ kern' = opened
                /\ last' = Last("Open", bus, NoArgs, <<call>>, "nil", 0, <<>>, <<>>)
                /\ UNCHANGED written

\* func (b *SMBus) Close
Close ==
    /\ state # "none"
    /\ prevTx' = PrevTxNext
    /\ UNCHANGED thr
    /\ LET ok == bus.fd # -1
       IN /\ kern' = IF ok THEN ReleaseFd(kern) ELSE kern
          /\ bus' = ClosedBus(bus)
          /\ state' = "closed"
          /\ last' = Last("Close", bus, NoArgs, <<>>,
                          IF ok THEN "nil" ELSE "close", 0, <<>>, <<>>)
          /\ UNCHANGED written

\* The caller assigns the exported field Force.
SetForce ==
    /\ state # "none"
    /\ prevTx' = PrevTxNext
    /\ UNCHANGED thr
    /\ \E f \in BOOLEAN :
        /\ bus' = [bus EXCEPT !.Force = f]
        /\ last' = Last("SetForce", bus, [NoArgs EXCEPT !.enable = f], <<>>,
                        "nil", 0, <<>>, <<>>)
    /\ UNCHANGED <<state, kern, written>>

\* An EnablePEC that sets the flag before it looks at the error.
PECAfterCallAlways(b, enable, ok) == [b EXCEPT !.pecEnabled = enable]

\* func (b *SMBus) EnablePEC: the local flag follows the kernel call's success.
PECAfterCall(b, enable, ok) ==
    IF ok THEN [b EXCEPT !.pecEnabled = enable] ELSE b

\* func (b *SMBus) EnablePEC
EnablePEC(b, k, enable, kernelOk) ==
    IF ~BitsSet(b.Funcs, SMBusPECFlag)
    THEN [bus |-> b, kern |-> k, calls |-> <<>>, err |-> "pec_unsupported"]
    ELSE LET arg == IF enable THEN 1 ELSE 0
             ok == IoctlOk(b, kernelOk)
         IN [bus |-> PECAfterCall(b, enable, ok),
             kern |-> IF ok THEN [k EXCEPT !.pec = (arg # 0)] ELSE k,
             calls |-> <<Call(I2CPEC, arg, NoBlock, <<>>, ok, k)>>,
             err |-> IF ok THEN "nil" ELSE "pec_ioctl"]

\* ------------------------------------------------------------ setAddress
\* A setAddress that compares the address alone.
NeedSelectAddressOnly(b, address) == b.address # address

\* (b.address != address) || (b.prevForce != b.Force)
NeedSelect(b, address) == b.address # address \/ b.prevForce # b.Force

\* if b.Force { I2CSlaveForce } else { I2CSlave }
SlaveCmd(b) == IF b.Force THEN I2CSlaveForce ELSE I2CSlave

\* A setAddress that updates the cache before it looks at the error.
CacheAfterSelectAlways(b, address, ok) ==
    [b EXCEPT !.address = address, !.prevForce = b.Force]

\* b.address = address; b.prevForce = b.Force, reached only when e == nil.
CacheAfterSelect(b, address, ok) ==
    IF ok THEN [b EXCEPT !.address = address, !.prevForce = b.Force] ELSE b

\* The kernel's side of a successful select-slave-address call.
KernSelect(k, cmd, address) ==
    [k EXCEPT !.sel = [addr |-> address,
                       mode |-> IF cmd = I2CSlaveForce THEN "force" ELSE "plain"]]

\* A setAddress without the cache: it selects the address on every call.
setAddressAlways(b, k, address, kernelOk) ==
    LET ok == IoctlOk(b, kernelOk)
        cmd == SlaveCmd(b)
    IN [bus |-> CacheAfterSelect(b, address, ok),
        kern |-> IF ok THEN KernSelect(k, cmd, address) ELSE k,
        calls |-> <<Call(cmd, address, NoBlock, <<>>, ok, k)>>,
        err |-> IF ok THEN "nil" ELSE "slave_ioctl"]

\* func (b *SMBus) setAddress
setAddress(b, k, address, kernelOk) ==
    IF NeedSelect(b, address)
    THEN LET ok == IoctlOk(b, kernelOk)
             cmd == SlaveCmd(b)
         IN [bus |-> CacheAfterSelect(b, address, ok),
             kern |-> IF ok THEN KernSelect(k, cmd, address) ELSE k,
             calls |-> <<Call(cmd, address, NoBlock, <<>>, ok, k)>>,
             err |-> IF ok THEN "nil" ELSE "slave_ioctl"]
    ELSE [bus |-> b, kern |-> k, calls |-> <<>>, err |-> "nil"]

\* ------------------------------------------------- the I2C_SMBUS ioctl
\* What the kernel may leave in the data union: a buffer of its own, or (echo)
\* the two bytes of the last word written through the descriptor.
FillByte(i) == (7 * i + 1) % 256
RespBuffer(c) == [i \in 1..UnionSize |-> IF i = 1 THEN c ELSE FillByte(i)]
EchoResponse == [echo |-> TRUE, data |-> ZeroData]
NoResponse == [echo |-> FALSE, data |-> ZeroData]

\* The kernel keeps the two bytes of a word written to the device.
KernTransfer(k, block) ==
    IF block.read_write = I2CSMBusWrite
       /\ block.size \in {I2CSMBusWordData, I2CSMBusProcCall}
    THEN [k EXCEPT !.word = <<block.data[1], block.data[2]>>]
    ELSE k

\* The kernel copies data back to the caller for a read and for the two
\* process calls; otherwise the union is left as the caller filled it.
KernData(k, block, resp) ==
    IF block.size # I2CSMBusQuick
       /\ (block.read_write = I2CSMBusRead
           \/ block.size \in {I2CSMBusProcCall, I2CSMBusBlockProcCall})
    THEN IF resp.echo
         THEN SetByte(SetByte(ZeroData, 0, k.word[1]), 1, k.word[2])
         ELSE resp.data
    ELSE block.data

\* msg := C.struct_i2c_smbus_ioctl_data{...}; e = ioctl(b.fd, I2CSMBus, &msg)
\* s is what setAddress returned.
Submit(s, rw, command, size, data, kernelOk, resp) ==
    LET ok == IoctlOk(s.bus, kernelOk)
        block == [read_write |-> rw, command |-> command, size |-> size,
                  data |-> data]
        k1 == IF ok THEN KernTransfer(s.kern, block) ELSE s.kern
    IN [bus |-> s.bus, kern |-> k1,
        calls |-> s.calls \o <<Call(I2CSMBus, 0, block, <<>>, ok, s.kern)>>,
        ok |-> ok,
        data |-> IF ok THEN KernData(k1, block, resp) ELSE data]

\* What an operation returns, with the handle and the kernel as it leaves them.
Out(s, err, ret, retData, resp) ==
    [bus |-> s.bus, kern |-> s.kern, calls |-> s.calls, err |-> err,
     ret |-> ret, retData |-> retData, resp |-> resp]

\* ---------------------------------------------------------- transactions
\* func (b *SMBus) WriteQuick
WriteQuick(b, k, address, selOk, txOk) ==
    LET s == setAddress(b, k, address, selOk)
    IN IF s.err # "nil" THEN Out(s, s.err, 0, <<>>, <<>>)
       ELSE LET t == Submit(s, I2CSMBusWrite, 0, I2CSMBusQuick, ZeroData, txOk,
                            NoResponse)
            IN IF ~t.ok THEN Out(t, "ioctl", 0, <<>>, <<>>)
               ELSE Out(t, "nil", 0, <<>>, t.data)

\* func (b *SMBus) ReadByte
ReadByte(b, k, address, selOk, txOk, resp) ==
    LET s == setAddress(b, k, address, selOk)
    IN IF s.err # "nil" THEN Out(s, s.err, 0, <<>>, <<>>)
       ELSE LET t == Submit(s, I2CSMBusRead, 0, I2CSMBusByte, ZeroData, txOk, resp)
            IN IF ~t.ok THEN Out(t, "ioctl", 0, <<>>, <<>>)
               ELSE Out(t, "nil", t.data[1], <<>>, t.data)

\* A WriteByte that leaves the command byte zero and puts the value in the
\* data union.
WriteByteValueInData(b, k, address, value, selOk, txOk) ==
    LET s == setAddress(b, k, address, selOk)
    IN IF s.err # "nil" THEN Out(s, s.err, 0, <<>>, <<>>)
       ELSE LET t == Submit(s, I2CSMBusWrite, 0, I2CSMBusByte,
                            SetByte(ZeroData, 0, value), txOk, NoResponse)
            IN IF ~t.ok THEN Out(t, "ioctl", 0, <<>>, <<>>)
               ELSE Out(t, "nil", 0, <<>>, t.data)

\* func (b *SMBus) WriteByte: command is the value, the data union stays zero.
WriteByte(b, k, address, value, selOk, txOk) ==
    LET s == setAddress(b, k, address, selOk)
    IN IF s.err # "nil" THEN Out(s, s.err, 0, <<>>, <<>>)
       ELSE LET t == Submit(s, I2CSMBusWrite, value, I2CSMBusByte, ZeroData, txOk,
                            NoResponse)
            IN IF ~t.ok THEN Out(t, "ioctl", 0, <<>>, <<>>)
               ELSE Out(t, "nil", 0, <<>>, t.data)

\* func (b *SMBus) ReadByteData
ReadByteData(b, k, address, register, selOk, txOk, resp) ==
    LET s == setAddress(b, k, address, selOk)
    IN IF s.err # "nil" THEN Out(s, s.err, 0, <<>>, <<>>)
       ELSE LET t == Submit(s, I2CSMBusRead, register, I2CSMBusByteData, ZeroData,
                            txOk, resp)
            IN IF ~t.ok THEN Out(t, "ioctl", 0, <<>>, <<>>)
               ELSE Out(t, "nil", t.data[1], <<>>, t.data)

\* func (b *SMBus) WriteByteData
WriteByteData(b, k, address, register, value, selOk, txOk) ==
    LET s == setAddress(b, k, address, selOk)
    IN IF s.err # "nil" THEN Out(s, s.err, 0, <<>>, <<>>)
       ELSE LET t == Submit(s, I2CSMBusWrite, register, I2CSMBusByteData,
                            SetByte(ZeroData, 0, value), txOk, NoResponse)
            IN IF ~t.ok THEN Out(t, "ioctl", 0, <<>>, <<>>)
               ELSE Out(t, "nil", 0, <<>>, t.data)

\* func (b *SMBus) ReadWordData
ReadWordData(b, k, address, register, selOk, txOk, resp) ==
    LET s == setAddress(b, k, address, selOk)
    IN IF s.err # "nil" THEN Out(s, s.err, 0, <<>>, <<>>)
       ELSE LET t == Submit(s, I2CSMBusRead, register, I2CSMBusWordData, ZeroData,
                            txOk, resp)
            IN IF ~t.ok THEN Out(t, "ioctl", 0, <<>>, <<>>)
               ELSE Out(t, "nil", Uint16(b.nativeByteOrder, t.data), <<>>, t.data)

\* func (b *SMBus) WriteWordData
WriteWordData(b, k, address, register, value, selOk, txOk) ==
    LET s == setAddress(b, k, address, selOk)
    IN IF s.err # "nil" THEN Out(s, s.err, 0, <<>>, <<>>)
       ELSE LET t == Submit(s, I2CSMBusWrite, register, I2CSMBusWordData,
                            PutUint16(b.nativeByteOrder, ZeroData, value), txOk,
                            NoResponse)
            IN IF ~t.ok THEN Out(t, "ioctl", 0, <<>>, <<>>)
               ELSE Out(t, "nil", 0, <<>>, t.data)

\* func (b *SMBus) ProcessCall
ProcessCall(b, k, address, register, value, selOk, txOk, resp) ==
    LET s == setAddress(b, k, address, selOk)
    IN IF s.err # "nil" THEN Out(s, s.err, 0, <<>>, <<>>)
       ELSE LET t == Submit(s, I2CSMBusWrite, register, I2CSMBusProcCall,
                            PutUint16(b.nativeByteOrder, ZeroData, value), txOk,
                            resp)
            IN IF ~t.ok THEN Out(t, "ioctl", 0, <<>>, <<>>)
               ELSE Out(t, "nil", Uint16(b.nativeByteOrder, t.data), <<>>, t.data)

\* A limit check that rejects a block of exactly I2CSMBusBlockMax bytes.
LengthOkStrict(length) == length < I2CSMBusBlockMax

\* length > I2CSMBusBlockMax is the error; this is its negation.
LengthOk(length) == length <= I2CSMBusBlockMax

\* data[0] = uint8(length); copy(data[1:length+1], values)
BlockData(length, values) ==
    CopyBlock(SetByte(ZeroData, 0, length % 256), length, values)

\* A result that starts at the length byte: data[0:length].
BlockResultFromZero(data, length) == Slice(data, 0, length)

\* return data[1 : length+1], nil
BlockResult(data, length) == Slice(data, 1, length + 1)

\* func (b *SMBus) ReadBlockData
ReadBlockData(b, k, address, register, selOk, txOk, resp) ==
    LET s == setAddress(b, k, address, selOk)
    IN IF s.err # "nil" THEN Out(s, s.err, 0, <<>>, <<>>)
       ELSE LET t == Submit(s, I2CSMBusRead, register, I2CSMBusBlockData, ZeroData,
                            txOk, resp)
                length == t.data[1]
            IN IF ~t.ok THEN Out(t, "ioctl", 0, <<>>, <<>>)
               ELSE IF ~LengthOk(length)
               THEN Out(t, "response_length", 0, <<>>, t.data)
               ELSE Out(t, "nil", 0, BlockResult(t.data, length), t.data)

\* func (b *SMBus) WriteBlockData
WriteBlockData(b, k, address, register, values, selOk, txOk) ==
    LET s == setAddress(b, k, address, selOk)
        length == Len(values)
    IN IF s.err # "nil" THEN Out(s, s.err, 0, <<>>, <<>>)
       ELSE IF ~LengthOk(length) THEN Out(s, "length", 0, <<>>, <<>>)
       ELSE LET t == Submit(s, I2CSMBusWrite, register, I2CSMBusBlockData,
                            BlockData(length, values), txOk, NoResponse)
            IN IF ~t.ok THEN Out(t, "ioctl", 0, <<>>, <<>>)
               ELSE Out(t, "nil", 0, <<>>, t.data)

\* func (b *SMBus) BlockProcessCall
BlockProcessCall(b, k, address, register, values, selOk, txOk, resp) ==
    LET s == setAddress(b, k, address, selOk)
        length == Len(values)
    IN IF s.err # "nil" THEN Out(s, s.err, 0, <<>>, <<>>)
       ELSE IF ~LengthOk(length) THEN Out(s, "length", 0, <<>>, <<>>)
       ELSE LET t == Submit(s, I2CSMBusWrite, register, I2CSMBusBlockProcCall,
                            BlockData(length, values), txOk, resp)
                rlength == t.data[1]
            IN IF ~t.ok THEN Out(t, "ioctl", 0, <<>>, <<>>)
               ELSE IF ~LengthOk(rlength)
               THEN Out(t, "response_length", 0, <<>>, t.data)
               ELSE Out(t, "nil", 0, BlockResult(t.data, rlength), t.data)

\* A ReadI2CBlockData that returns as many bytes as the response's byte 0 says.
ReadI2CBlockDataByResponse(b, k, address, register, length, selOk, txOk, resp) ==
    IF ~LengthOk(length)
    THEN [bus |-> b, kern |-> k, calls |-> <<>>, err |-> "length", ret |-> 0,
          retData |-> <<>>, resp |-> <<>>]
    ELSE LET s == setAddress(b, k, address, selOk)
         IN IF s.err # "nil" THEN Out(s, s.err, 0, <<>>, <<>>)
            ELSE LET t == Submit(s, I2CSMBusRead, register, I2CSMBusI2CBlockData,
                                 SetByte(ZeroData, 0, length), txOk, resp)
                 IN IF ~t.ok THEN Out(t, "ioctl", 0, <<>>, <<>>)
                    ELSE IF ~LengthOk(t.data[1])
                    THEN Out(t, "response_length", 0, <<>>, t.data)
                    ELSE Out(t, "nil", 0, BlockResult(t.data, t.data[1]), t.data)

\* func (b *SMBus) ReadI2CBlockData
ReadI2CBlockData(b, k, address, register, length, selOk, txOk, resp) ==
    IF ~LengthOk(length)
    THEN [bus |-> b, kern |-> k, calls |-> <<>>, err |-> "length", ret |-> 0,
          retData |-> <<>>, resp |-> <<>>]
    ELSE LET s == setAddress(b, k, address, selOk)
         IN IF s.err # "nil" THEN Out(s, s.err, 0, <<>>, <<>>)
            ELSE LET t == Submit(s, I2CSMBusRead, register, I2CSMBusI2CBlockData,
                                 SetByte(ZeroData, 0, length), txOk, resp)
                 IN IF ~t.ok THEN Out(t, "ioctl", 0, <<>>, <<>>)
                    ELSE Out(t, "nil", 0, BlockResult(t.data, length), t.data)

\* func (b *SMBus) WriteI2CBlockData
WriteI2CBlockData(b, k, address, register, values, selOk, txOk) ==
    LET length == Len(values)
    IN IF ~LengthOk(length)
       THEN [bus |-> b, kern |-> k, calls |-> <<>>, err |-> "length", ret |-> 0,
             retData |-> <<>>, resp |-> <<>>]
       ELSE LET s == setAddress(b, k, address, selOk)
            IN IF s.err # "nil" THEN Out(s, s.err, 0, <<>>, <<>>)
               ELSE LET t == Submit(s, I2CSMBusWrite, register,
                                    I2CSMBusI2CBlockData,
                                    BlockData(length, values), txOk, NoResponse)
                    IN IF ~t.ok THEN Out(t, "ioctl", 0, <<>>, <<>>)
                       ELSE Out(t, "nil", 0, <<>>, t.data)

\* ----------------------------------------------------------------- I2CRdWr
\* A check of the first message's buffer only.
HasEmptyBufferFirst(messages) == Len(messages[1].Buffer) = 0

\* A conversion that fills the list back to front.
InternalMessagesReversed(messages) ==
    [i \in 1..Len(messages) |->
        [addr |-> messages[Len(messages) + 1 - i].Address % 65536,
         flags |-> messages[Len(messages) + 1 - i].Flags % 65536,
         len |-> messages[Len(messages) + 1 - i].Length % 65536,
         buf |-> Len(messages) + 1 - i]]

\* The loop of I2CRdWr returns at the first message with len(Buffer) == 0.
HasEmptyBuffer(messages) ==
    \E i \in 1..Len(messages) : Len(messages[i].Buffer) = 0

\* internalMessages[i].addr/.flags/.len/.buf, for each message in order; buf
\* points into the buffer of message i.
InternalMessages(messages) ==
    [i \in 1..Len(messages) |->
        [addr |-> messages[i].Address % 65536,
         flags |-> messages[i].Flags % 65536,
         len |-> messages[i].Length % 65536,
         buf |-> i]]

\* func (b *SMBus) I2CRdWr
I2CRdWr(b, k, messages, kernelOk) ==
    IF Len(messages) = 0
    THEN [bus |-> b, kern |-> k, calls |-> <<>>, err |-> "no_messages"]
    ELSE IF HasEmptyBuffer(messages)
    THEN [bus |-> b, kern |-> k, calls |-> <<>>, err |-> "empty_buffer"]
    ELSE LET ok == IoctlOk(b, kernelOk)
         IN [bus |-> b, kern |-> k,
             calls |-> <<Call(I2CRDWR, Len(messages), NoBlock,
                              InternalMessages(messages), ok, k)>>,
             err |-> IF ok THEN "nil" ELSE "rdwr_ioctl"]

\* ------------------------------------------------------------ the inputs
Message(a, f, n, m) ==
    [Address |-> a, Flags |-> f, Length |-> n, Buffer |-> [i \in 1..m |-> 0]]
RECURSIVE SeqsUpTo(_, _)
SeqsUpTo(S, n) ==
    IF n = 0 THEN {<<>>}
    ELSE LET shorter == SeqsUpTo(S, n - 1)
         IN shorter \cup {Append(q, x) : q \in shorter, x \in S}
Payload(n) == [i \in 1..n |-> (3 * i + 16) % 256]
ResponsesOf(counts) == {[echo |-> FALSE, data |-> RespBuffer(c)] : c \in counts}

\* What the kernel does with the calls of one operation: it fails the select
\* call, or fails the transfer, or lets both succeed and answers with resp.
KernelChoices(resps) ==
    {[selOk |-> FALSE, txOk |-> TRUE, resp |-> NoResponse],
     [selOk |-> TRUE, txOk |-> FALSE, resp |-> NoResponse]}
    \cup {[selOk |-> TRUE, txOk |-> TRUE, resp |-> r] : r \in resps}

\* The inputs of specification Spec: every address, both capability masks,
\* block payloads at and above the limit.
AddrInputs ==
    [addrs |-> 0..MaxAddr,
     regs |-> {16},
     bytes |-> {165},
     words |-> {4660},
     lens |-> I2CSMBusBlockMax..(I2CSMBusBlockMax + MaxOver),
     writeLens |-> I2CSMBusBlockMax..(I2CSMBusBlockMax + MaxOver),
     resps |-> ResponsesOf({2, I2CSMBusBlockMax + 1}),
     wordResps |-> ResponsesOf({2}),
     msgs |-> SeqsUpTo({Message(1, 0, 1, 1), Message(2, I2CMRD, 1, 0)}, 1),
     funcs |-> {SMBusEmulFlag, SMBusEmulFlag - SMBusPECFlag},
     orders |-> {"little"}]

\* The inputs of specification SpecData: one device without PEC, both byte
\* orders, block lengths and response lengths on both sides of the limit,
\* message lists.
DataInputs ==
    [addrs |-> {1},
     regs |-> {16},
     bytes |-> {165},
     words |-> {4660, 255, 65535},
     lens |-> {0, 1} \cup (I2CSMBusBlockMax..(I2CSMBusBlockMax + MaxOver)),
     writeLens |-> {0, 1} \cup (I2CSMBusBlockMax..(I2CSMBusBlockMax + MaxOver)),
     resps |-> ResponsesOf({0, 1, I2CSMBusBlockMax, I2CSMBusBlockMax + 1, 255}),
     wordResps |-> ResponsesOf({1}) \cup {EchoResponse},
     msgs |-> SeqsUpTo({Message(1, 0, 1, 1), Message(2, I2CMRD, 2, 2),
                        Message(1, I2CMRD, 1, 0), Message(2, 0, 0, 1)}, MaxMsgs),
     funcs |-> {SMBusEmulFlag - SMBusPECFlag},
     orders |-> {"little", "big"}]

\* The inputs of specification SpecBlock: one device without PEC, and
\* WriteBlockData with every payload length from 0 to beyond the limit.
BlockInputs ==
    [addrs |-> {1},
     regs |-> {16},
     bytes |-> {165},
     words |-> {4660},
     lens |-> I2CSMBusBlockMax..(I2CSMBusBlockMax + MaxOver),
     writeLens |-> 0..(I2CSMBusBlockMax + MaxOver),
     resps |-> ResponsesOf({2}),
     wordResps |-> ResponsesOf({2}),
     msgs |-> SeqsUpTo({Message(1, 0, 1, 1)}, 1),
     funcs |-> {SMBusEmulFlag - SMBusPECFlag},
     orders |-> {"little"}]

\* The sum of the numbers of a set.
RECURSIVE SumOf(_)
SumOf(S) == IF S = {} THEN 0 ELSE LET x == CHOOSE y \in S : TRUE
                                  IN x + SumOf(S \ {x})

\* The inputs of specification SpecFlags: capability values made of the
\* members of two composites, the rest of the emulated set, a flag of its
\* own, and two bits no table entry names (bit 6 and bit 29); the masks are
\* the table entries, 0, and masks with a bit outside the table.
FlagInputs ==
    [funcs |-> {SumOf(S) : S \in SUBSET {SMBusReadByteFlag, SMBusWriteByteFlag,
                    SMBusReadBlockDataFlag, SMBusWriteBlockDataFlag,
                    SMBusEmulFlag - SMBusByteFlag - SMBusWriteBlockDataFlag,
                    I2CFlag, 64, 536870912}},
     masks |-> {flags[i] : i \in 1..Len(flags)}
               \cup {0, 64, SMBusByteFlag + 64, 536870912},
     orders |-> {"little"}]

\* --------------------------------------------------------------- actions
\* One call of an operation on the handle: the handle and the kernel become
\* what the operation left, and the call is recorded.
Do(op, args, o) ==
    /\ state # "none"
    /\ bus' = o.bus
    /\ kern' = o.kern
    /\ last' = Last(op, bus, args, o.calls, o.err, o.ret, o.retData, o.resp)
    /\ written' = IF op \in {"WriteWordData", "ProcessCall"} /\ o.err = "nil"
                  THEN args.value ELSE written
    /\ prevTx' = PrevTxNext
    /\ UNCHANGED <<state, thr>>

CallEnablePEC(P) ==
    \E enable \in BOOLEAN, ok \in BOOLEAN :
        LET o == EnablePEC(bus, kern, enable, ok)
        IN Do("EnablePEC", [NoArgs EXCEPT !.enable = enable],
              Out(o, o.err, 0, <<>>, <<>>))

CallWriteQuick(P) ==
    \E a \in P.addrs, c \in KernelChoices({NoResponse}) :
        Do("WriteQuick", [NoArgs EXCEPT !.address = a],
           WriteQuick(bus, kern, a, c.selOk, c.txOk))

CallReadByte(P) ==
    \E a \in P.addrs, c \in KernelChoices(P.resps) :
        Do("ReadByte", [NoArgs EXCEPT !.address = a],
           ReadByte(bus, kern, a, c.selOk, c.txOk, c.resp))

CallWriteByte(P) ==
    \E a \in P.addrs, v \in P.bytes, c \in KernelChoices({NoResponse}) :
        Do("WriteByte", [NoArgs EXCEPT !.address = a, !.value = v],
           WriteByte(bus, kern, a, v, c.selOk, c.txOk))

CallReadByteData(P) ==
    \E a \in P.addrs, r \in P.regs, c \in KernelChoices(P.resps) :
        Do("ReadByteData", [NoArgs EXCEPT !.address = a, !.register = r],
           ReadByteData(bus, kern, a, r, c.selOk, c.txOk, c.resp))

CallWriteByteData(P) ==
    \E a \in P.addrs, r \in P.regs, v \in P.bytes,
       c \in KernelChoices({NoResponse}) :
        Do("WriteByteData",
           [NoArgs EXCEPT !.address = a, !.register = r, !.value = v],
           WriteByteData(bus, kern, a, r, v, c.selOk, c.txOk))

CallReadWordData(P) ==
    \E a \in P.addrs, r \in P.regs, c \in KernelChoices(P.wordResps) :
        Do("ReadWordData", [NoArgs EXCEPT !.address = a, !.register = r],
           ReadWordData(bus, kern, a, r, c.selOk, c.txOk, c.resp))

CallWriteWordData(P) ==
    \E a \in P.addrs, r \in P.regs, v \in P.words,
       c \in KernelChoices({NoResponse}) :
        Do("WriteWordData",
           [NoArgs EXCEPT !.address = a, !.register = r, !.value = v],
           WriteWordData(bus, kern, a, r, v, c.selOk, c.txOk))

CallProcessCall(P) ==
    \E a \in P.addrs, r \in P.regs, v \in P.words,
       c \in KernelChoices(P.wordResps) :
        Do("ProcessCall",
           [NoArgs EXCEPT !.address = a, !.register = r, !.value = v],
           ProcessCall(bus, kern, a, r, v, c.selOk, c.txOk, c.resp))

CallReadBlockData(P) ==
    \E a \in P.addrs, r \in P.regs, c \in KernelChoices(P.resps) :
        Do("ReadBlockData", [NoArgs EXCEPT !.address = a, !.register = r],
           ReadBlockData(bus, kern, a, r, c.selOk, c.txOk, c.resp))

CallWriteBlockData(P) ==
    \E a \in P.addrs, r \in P.regs, n \in P.writeLens,
       c \in KernelChoices({NoResponse}) :
        Do("WriteBlockData",
           [NoArgs EXCEPT !.address = a, !.register = r, !.values = Payload(n)],
           WriteBlockData(bus, kern, a, r, Payload(n), c.selOk, c.txOk))

CallBlockProcessCall(P) ==
    \E a \in P.addrs, r \in P.regs, n \in P.lens, c \in KernelChoices(P.resps) :
        Do("BlockProcessCall",
           [NoArgs EXCEPT !.address = a, !.register = r, !.values = Payload(n)],
           BlockProcessCall(bus, kern, a, r, Payload(n), c.selOk, c.txOk, c.resp))

CallReadI2CBlockData(P) ==
    \E a \in P.addrs, r \in P.regs, n \in P.lens, c \in KernelChoices(P.resps) :
        Do("ReadI2CBlockData",
           [NoArgs EXCEPT !.address = a, !.register = r, !.length = n],
           ReadI2CBlockData(bus, kern, a, r, n, c.selOk, c.txOk, c.resp))

CallWriteI2CBlockData(P) ==
    \E a \in P.addrs, r \in P.regs, n \in P.lens,
       c \in KernelChoices({NoResponse}) :
        Do("WriteI2CBlockData",
           [NoArgs EXCEPT !.address = a, !.register = r, !.values = Payload(n)],
           WriteI2CBlockData(bus, kern, a, r, Payload(n), c.selOk, c.txOk))

CallI2CRdWr(P) ==
    \E ms \in P.msgs, ok \in BOOLEAN :
        LET o == I2CRdWr(bus, kern, ms, ok)
        IN Do("I2CRdWr", [NoArgs EXCEPT !.messages = ms],
              Out(o, o.err, 0, <<>>, <<>>))

\* b.Funcs.BitsSet(bits); the mask is one of P.masks or the value itself.
CallBitsSet(P) ==
    \E m \in P.masks \cup {bus.Funcs} :
        Do("BitsSet", [NoArgs EXCEPT !.value = m],
           [bus |-> bus, kern |-> kern, calls |-> <<>>, err |-> "nil",
            ret |-> IF BitsSet(bus.Funcs, m) THEN 1 ELSE 0, retData |-> <<>>,
            resp |-> <<>>])

\* b.Funcs.GetStringsList()
CallGetStringsList ==
    Do("GetStringsList", NoArgs,
       [bus |-> bus, kern |-> kern, calls |-> <<>>, err |-> "nil", ret |-> 0,
        retData |-> GetStringsList(bus.Funcs), resp |-> <<>>])

Next(P) ==
    \/ NewSMBusWithPath(P)
    \/ Close
    \/ SetForce
    \/ CallEnablePEC(P)
    \/ CallWriteQuick(P)
    \/ CallReadByte(P)
    \/ CallWriteByte(P)
    \/ CallReadByteData(P)
    \/ CallWriteByteData(P)
    \/ CallReadWordData(P)
    \/ CallWriteWordData(P)
    \/ CallProcessCall(P)
    \/ CallReadBlockData(P)
    \/ CallWriteBlockData(P)
    \/ CallBlockProcessCall(P)
    \/ CallReadI2CBlockData(P)
    \/ CallWriteI2CBlockData(P)
    \/ CallI2CRdWr(P)

NextAddr == Next(AddrInputs)
NextData == Next(DataInputs)
NextBlock == Next(BlockInputs)

\* ---------------------------------------------- two goroutines, one handle
\* Each goroutine calls ReadByte for a slave address of its own; the steps of
\* a call are the reads and writes of the handle and the kernel calls of
\* setAddress and ReadByte, in program order. Without the callers' mutex the
\* steps of the two calls interleave freely (the fields are word-sized, so a
\* racing read sees the value before or after a racing write); with it, a
\* call starts only when the mutex is free and holds it until it returns.
TargetOf(t) == t

\* The call returns: the goroutine is idle again and gives up the mutex.
Return(t) == [thr EXCEPT !.pc[t] = "idle", !.lock = 0]

\* ReadByte is entered and setAddress evaluates its condition.
ThreadBegin(t) ==
    /\ state = "open"
    /\ thr.pc[t] = "idle"
    /\ thr.sync => thr.lock = 0
    /\ thr' = [thr EXCEPT !.lock = IF thr.sync THEN t ELSE 0,
                          !.pc[t] = IF NeedSelect(bus, TargetOf(t))
                                    THEN "select" ELSE "submit"]
    /\ UNCHANGED <<state, bus, kern, last, written, prevTx>>

\* e = ioctl(b.fd, I2CSlave / I2CSlaveForce, address); on an error setAddress
\* and ReadByte return it.
ThreadSelect(t) ==
    /\ thr.pc[t] = "select"
    /\ \E kernelOk \in BOOLEAN :
        LET ok == IoctlOk(bus, kernelOk)
        IN /\ kern' = IF ok THEN KernSelect(kern, SlaveCmd(bus), TargetOf(t))
                      ELSE kern
           /\ bus' = IF ok THEN bus ELSE CacheAfterSelect(bus, TargetOf(t), FALSE)
           /\ thr' = IF ok THEN [thr EXCEPT !.pc[t] = "cache"] ELSE Return(t)
    /\ UNCHANGED <<state, last, written, prevTx>>

\* b.address = address; b.prevForce = b.Force
ThreadCache(t) ==
    /\ thr.pc[t] = "cache"
    /\ bus' = CacheAfterSelect(bus, TargetOf(t), TRUE)
    /\ thr' = [thr EXCEPT !.pc[t] = "submit"]
    /\ UNCHANGED <<state, kern, last, written, prevTx>>

\* e = ioctl(b.fd, I2CSMBus, &msg) of ReadByte; the block goes to the slave
\* address the kernel holds for the descriptor at this moment.
ThreadSubmit(t) ==
    /\ thr.pc[t] = "submit"
    /\ \E kernelOk \in BOOLEAN :
        thr' = [Return(t) EXCEPT
                  !.submit = [thread |-> t, address |-> TargetOf(t),
                              ok |-> IoctlOk(bus, kernelOk), sel |-> kern.sel]]
    /\ UNCHANGED <<state, bus, kern, last, written, prevTx>>

ThreadInputs == [funcs |-> {SMBusEmulFlag}, orders |-> {"little"}]

NextThreads ==
    \/ NewSMBusWithPath(ThreadInputs)
    \/ \E t \in Threads : ThreadBegin(t)
    \/ \E t \in Threads : ThreadSelect(t)
    \/ \E t \in Threads : ThreadCache(t)
    \/ \E t \in Threads : ThreadSubmit(t)

NextFlags ==
    \/ NewSMBusWithPath(FlagInputs)
    \/ CallBitsSet(FlagInputs)
    \/ CallGetStringsList

\* The handle under every address, Force setting and kernel failure.
Spec == Init /\ [][NextAddr]_vars

\* The handle under every payload, response and message list.
SpecData == Init /\ [][NextData]_vars

\* The handle under block writes of every length.
SpecBlock == Init /\ [][NextBlock]_vars

\* The capability mask of a handle under BitsSet and GetStringsList.
SpecFlags == Init /\ [][NextFlags]_vars

\* Two goroutines on one handle, with and without the callers' mutex.
InitThreads == \E sync \in BOOLEAN : InitWith(sync)
SpecThreads == InitThreads /\ [][NextThreads]_vars

\* ================================================================ claims
\* The calls of the last operation, by kind.
SelectCalls == CallsOf(last, SelectCmds)
SubmitCalls == CallsOf(last, {I2CSMBus})
SelectFailed == \E i \in 1..Len(last.calls) :
                    last.calls[i].cmd \in SelectCmds /\ ~last.calls[i].ok
CacheUnchanged ==
    /\ bus.address = last.pre.address
    /\ bus.prevForce = last.pre.prevForce
ModeOf(force) == IF force THEN "force" ELSE "plain"

\* C1: whenever a transaction submits its control block on an open handle, the
\* slave address and mode the kernel holds as selected at that moment are the
\* handle's cached address and last-applied-force flag, and these are the
\* transaction's address and the handle's Force flag -- for the first
\* transaction after the open as for later ones.
C1_SubmitUnderSelectedAddress ==
    \A i \in 1..Len(last.calls) :
        (last.op \in TxOps /\ last.calls[i].cmd = I2CSMBus /\ last.pre.fd # -1)
        => /\ last.calls[i].sel = [addr |-> bus.address,
                                   mode |-> ModeOf(bus.prevForce)]
           /\ bus.address = last.address
           /\ bus.prevForce = last.pre.Force

\* C2: of two consecutive successful transactions, the second issues no
\* select-slave-address call when it uses the address of the first and Force
\* has the value it had then; otherwise it issues exactly one, for its own
\* address, in the force variant iff Force is true.
C2_SelectOnlyOnChange ==
    (last.op \in TxOps /\ last.err = "nil" /\ prevTx.ok)
    => IF last.address = prevTx.address /\ last.pre.Force = prevTx.force
       THEN SelectCalls = <<>>
       ELSE /\ Len(SelectCalls) = 1
            /\ SelectCalls[1].cmd = IF last.pre.Force THEN I2CSlaveForce ELSE I2CSlave
            /\ SelectCalls[1].arg = last.address

\* C2 witness: a successful transaction to the address of the successful one
\* before it, after Force was switched on in between, has issued one
\* force-variant select call.
C2_Witness ==
    /\ last.op \in TxOps /\ last.err = "nil" /\ prevTx.ok
    /\ last.address = prevTx.address /\ ~prevTx.force /\ last.pre.Force
    /\ Len(SelectCalls) = 1 /\ SelectCalls[1].cmd = I2CSlaveForce

\* First part of C3: a transaction whose select-slave-address call failed
\* returned an error, left the cached address and last-applied-force flag as
\* they were, and submitted no control block.
C3_FailedSelectState ==
    (last.op \in TxOps /\ SelectFailed)
    => /\ last.err # "nil"
       /\ CacheUnchanged
       /\ SubmitCalls = <<>>

\* This step runs a transaction to the address of the transaction before it,
\* whose select call had failed; Force is what it was.
FollowsFailedSelect ==
    /\ last.op \in TxOps /\ SelectFailed
    /\ last'.op \in TxOps /\ last'.address = last.address
    /\ last'.pre = bus /\ bus.Force = last.pre.Force

\* The operation of this step was rejected for its length before it reached
\* setAddress (the two I2C-block operations check first).
RejectedBeforeSelect ==
    /\ last'.op \in {"ReadI2CBlockData", "WriteI2CBlockData"}
    /\ last'.err = "length"

\* C3 as stated: the state a failed select call leaves, in every state, and
\* in every step: any following transaction to the same address issues the
\* select call again.
C3_FailedSelectOriginal ==
    /\ [](C3_FailedSelectState)
    /\ [][FollowsFailedSelect => CallsOf(last', SelectCmds) # <<>>]_vars

\* C3 as amended: the state a failed select call leaves, in every state, and
\* in every step: the following transaction to the same address issues the
\* select call again unless it is rejected for its length before setAddress.
C3_FailedSelect ==
    /\ [](C3_FailedSelectState)
    /\ [][(FollowsFailedSelect /\ ~RejectedBeforeSelect)
          => CallsOf(last', SelectCmds) # <<>>]_vars

\* C3 witness: on an open handle the kernel refused the select call of a
\* transaction to an address other than the cached one, and the cache still
\* holds the old address.
C3_Witness ==
    /\ last.op \in TxOps /\ SelectFailed /\ last.pre.fd # -1
    /\ last.address # last.pre.address
    /\ bus.address = last.pre.address

\* C4: WriteBlockData, BlockProcessCall and WriteI2CBlockData with more than 32
\* bytes, and ReadI2CBlockData for more than 32 bytes, return the length-limit
\* error, issue no kernel call at all, and leave the cached address, the
\* last-applied-force flag and the PEC flag as they were.
C4_LengthRejectedBeforeAnyCall ==
    (\/ /\ last.op \in {"WriteBlockData", "BlockProcessCall", "WriteI2CBlockData"}
        /\ Len(last.values) > I2CSMBusBlockMax
     \/ /\ last.op = "ReadI2CBlockData"
        /\ last.length > I2CSMBusBlockMax)
    => /\ last.err = "length"
       /\ last.calls = <<>>
       /\ CacheUnchanged
       /\ bus.pecEnabled = last.pre.pecEnabled

\* C5: WriteBlockData with n <= 32 bytes is not rejected for its length and,
\* unless its select call failed, submits exactly one block-data write whose
\* command byte is the register, whose byte 0 is n and whose bytes 1..n are the
\* payload in order; with more than 32 bytes it fails and submits nothing.
C5_WriteBlockData ==
    last.op = "WriteBlockData"
    => LET n == Len(last.values)
       IN IF n <= 32
          THEN /\ last.err # "length"
               /\ ~SelectFailed
                  => /\ Len(SubmitCalls) = 1
                     /\ SubmitCalls[1].block.read_write = I2CSMBusWrite
                     /\ SubmitCalls[1].block.size = I2CSMBusBlockData
                     /\ SubmitCalls[1].block.command = last.register
                     /\ SubmitCalls[1].block.data[1] = n
                     /\ \A i \in 1..n :
                            SubmitCalls[1].block.data[i + 1] = last.values[i]
          ELSE /\ last.err # "nil"
               /\ SubmitCalls = <<>>

\* C5 witness: a 32-byte block write went through with byte 0 equal to 32.
C5_Witness ==
    /\ last.op = "WriteBlockData" /\ Len(last.values) = 32 /\ last.err = "nil"
    /\ Len(SubmitCalls) = 1 /\ SubmitCalls[1].block.data[1] = 32
    /\ SubmitCalls[1].block.data[33] = last.values[32]

\* C6: after a successful kernel call of ReadBlockData or BlockProcessCall, a
\* reported length (byte 0) above 32 gives an error and no data; otherwise the
\* result is exactly bytes 1..count of the response.
C6_BlockResponse ==
    (/\ last.op \in {"ReadBlockData", "BlockProcessCall"}
     /\ Len(SubmitCalls) = 1 /\ SubmitCalls[1].ok)
    => LET count == last.resp[1]
       IN IF count > 32
          THEN last.err # "nil" /\ last.retData = <<>>
          ELSE /\ last.err = "nil"
               /\ Len(last.retData) = count
               /\ \A i \in 1..count : last.retData[i] = last.resp[i + 1]

\* C6 witness: a block read returned all 32 bytes the kernel reported.
C6_Witness ==
    /\ last.op = "ReadBlockData" /\ last.err = "nil"
    /\ last.resp[1] = 32 /\ Len(last.retData) = 32
    /\ last.retData[32] = last.resp[33]

\* The handle of the last operation had the PEC bit in its capability mask.
HadPECBit == (last.pre.Funcs \div SMBusPECFlag) % 2 = 1
\* The last operation issued the PEC call and the kernel accepted it.
PECCallOk == Len(last.calls) = 1 /\ last.calls[1].cmd = I2CPEC /\ last.calls[1].ok

\* C7: the PEC flag changes only by an EnablePEC(v) on a handle with the PEC
\* capability bit whose kernel call succeeded, and is v afterwards; without
\* the bit EnablePEC fails with no kernel call and no change; with a failed
\* kernel call it fails with no change.
C7_PECOnlyOnSuccess ==
    /\ bus.pecEnabled # last.pre.pecEnabled
       => last.op = "EnablePEC" /\ HadPECBit /\ PECCallOk
    /\ last.op = "EnablePEC"
       => /\ (HadPECBit /\ PECCallOk)
             => last.err = "nil" /\ bus.pecEnabled = last.enable
          /\ ~HadPECBit
             => /\ last.err # "nil" /\ last.calls = <<>>
                /\ bus.pecEnabled = last.pre.pecEnabled
          /\ (HadPECBit /\ ~PECCallOk)
             => last.err # "nil" /\ bus.pecEnabled = last.pre.pecEnabled

\* C7 witness: PEC was on and a failed EnablePEC(false) left it on.
C7_Witness ==
    /\ last.op = "EnablePEC" /\ HadPECBit /\ ~last.enable
    /\ Len(last.calls) = 1 /\ ~last.calls[1].ok /\ last.pre.fd # -1
    /\ bus.pecEnabled

\* The two bytes of v as the host keeps a 16-bit word in memory.
HostBytes(v) ==
    IF bus.nativeByteOrder = "little"
    THEN <<v % 256, v \div 256>> ELSE <<v \div 256, v % 256>>

\* C8: WriteWordData and ProcessCall put their 16-bit value in bytes 0..1 in
\* the host's byte order; a ReadWordData answered with the two bytes the
\* kernel holds from the last word written returns the value written, and a
\* ProcessCall answered with its own two bytes returns its own value.
C8_WordRoundTrip ==
    /\ (last.op \in {"WriteWordData", "ProcessCall"} /\ Len(SubmitCalls) = 1)
       => SubSeq(SubmitCalls[1].block.data, 1, 2) = HostBytes(last.value)
    /\ (/\ last.op = "ReadWordData" /\ last.err = "nil" /\ written # -1
        /\ SubSeq(last.resp, 1, 2) = kern.word)
       => last.ret = written
    /\ (/\ last.op = "ProcessCall" /\ last.err = "nil"
        /\ SubSeq(last.resp, 1, 2) = SubSeq(SubmitCalls[1].block.data, 1, 2))
       => last.ret = last.value

\* C8 witness: on a big-endian host 0x1234 was written and read back.
C8_Witness ==
    /\ last.op = "ReadWordData" /\ last.err = "nil" /\ written = 4660
    /\ SubSeq(last.resp, 1, 2) = kern.word /\ kern.word = <<18, 52>>
    /\ bus.nativeByteOrder = "big" /\ last.ret = 4660

\* C9: I2CRdWr with no message, or with a message anywhere in the list whose
\* buffer is empty, returns an error and issues no kernel call.
C9_RdWrRejects ==
    (/\ last.op = "I2CRdWr"
     /\ \/ Len(last.messages) = 0
        \/ \E i \in 1..Len(last.messages) : Len(last.messages[i].Buffer) = 0)
    => last.err # "nil" /\ last.calls = <<>>

\* C9 witness: a list whose second message alone has an empty buffer was
\* rejected.
C9_Witness ==
    /\ last.op = "I2CRdWr" /\ Len(last.messages) = 2
    /\ Len(last.messages[1].Buffer) > 0 /\ Len(last.messages[2].Buffer) = 0
    /\ last.err = "empty_buffer" /\ last.calls = <<>>

\* C10: I2CRdWr with at least one message and no empty buffer issues exactly
\* one kernel call, the raw transfer, carrying the messages in the given order
\* with their address, flags and length, and leaves the address cache alone.
C10_RdWrForwards ==
    (/\ last.op = "I2CRdWr" /\ Len(last.messages) > 0
     /\ \A i \in 1..Len(last.messages) : Len(last.messages[i].Buffer) > 0)
    => /\ Len(last.calls) = 1
       /\ last.calls[1].cmd = I2CRDWR
       /\ last.calls[1].arg = Len(last.messages)
       /\ Len(last.calls[1].msgs) = Len(last.messages)
       /\ \A i \in 1..Len(last.messages) :
            /\ last.calls[1].msgs[i].addr = last.messages[i].Address
            /\ last.calls[1].msgs[i].flags = last.messages[i].Flags
            /\ last.calls[1].msgs[i].len = last.messages[i].Length
            /\ last.calls[1].msgs[i].buf = i
       /\ CacheUnchanged
       /\ bus.Force = last.pre.Force

\* C10 witness: two different messages went to the kernel in one call.
C10_Witness ==
    /\ last.op = "I2CRdWr" /\ Len(last.messages) = 2 /\ last.err = "nil"
    /\ last.messages[1] # last.messages[2]
    /\ Len(last.calls) = 1 /\ Len(last.calls[1].msgs) = 2
    /\ last.calls[1].msgs[2].addr = last.messages[2].Address

\* C11: an open either succeeds, and then there is a handle that holds one
\* more open descriptor than there was before and the capability mask the
\* get-functions call returned, or it returns an error, and then there is no
\* handle and as many open descriptors as before, whether the path could not
\* be opened or the get-functions call failed after the open.
C11_OpenAllOrNothing ==
    last.op = "Open"
    => IF last.err = "nil"
       THEN /\ state = "open"
            /\ bus.fd # -1
            /\ kern.nfds = last.fds + 1
            /\ Len(last.calls) = 1
            /\ last.calls[1].cmd = I2CFuncs /\ last.calls[1].ok
            /\ bus.Funcs = last.calls[1].arg
       ELSE /\ state = "none"
            /\ kern.nfds = last.fds

\* C11 witness: the path was opened, the get-functions call failed, and no
\* descriptor is left open.
C11_Witness ==
    /\ last.op = "Open" /\ last.err = "funcs"
    /\ Len(last.calls) = 1 /\ ~last.calls[1].ok
    /\ state = "none" /\ kern.nfds = 0

\* The operations that go to the kernel through the handle.
HandleOps == TxOps \cup {"I2CRdWr", "EnablePEC", "Close"}

\* C12: Close on an open handle releases its descriptor and returns no error;
\* on a handle that was closed, every transaction, raw transfer, EnablePEC
\* and Close returns an error, no kernel call it makes succeeds, and no
\* descriptor is released.
C12_ClosedHandleFails ==
    /\ (last.op = "Close" /\ ~last.closed)
       => /\ last.err = "nil"
          /\ kern.nfds = last.fds - 1
          /\ state = "closed"
    /\ (last.op \in HandleOps /\ last.closed)
       => /\ last.err # "nil"
          /\ \A i \in 1..Len(last.calls) : ~last.calls[i].ok
          /\ kern.nfds = last.fds

\* C12 witness: on a closed handle, a transaction to the address and Force
\* setting still in the cache went straight to its submit call, which failed.
C12_Witness ==
    /\ last.op \in TxOps /\ last.closed
    /\ last.address = last.pre.address /\ last.address # 0
    /\ last.pre.Force = last.pre.prevForce
    /\ Len(last.calls) = 1 /\ last.calls[1].cmd = I2CSMBus
    /\ ~last.calls[1].ok /\ last.err # "nil"

\* Bit i of x is set. The values are below 2^31.
HasBit(x, i) == (x \div (2 ^ i)) % 2 = 1

\* C13: BitsSet(m) on a capability value f is true iff every bit set in m is
\* set in f; it is true for m = 0 and for m = f; and it leaves f as it was.
C13_BitsSet ==
    last.op = "BitsSet"
    => LET f == last.pre.Funcs
           m == last.value
       IN /\ (last.ret = 1) <=> (\A i \in 0..30 : HasBit(m, i) => HasBit(f, i))
          /\ last.ret \in {0, 1}
          /\ m = 0 => last.ret = 1
          /\ m = f => last.ret = 1
          /\ bus.Funcs = f

\* C13 witness: the value has one of the two bits of the mask, and BitsSet
\* returned false.
C13_Witness ==
    /\ last.op = "BitsSet" /\ last.ret = 0
    /\ HasBit(last.value, 17) /\ HasBit(last.value, 18)
    /\ HasBit(last.pre.Funcs, 17) /\ ~HasBit(last.pre.Funcs, 18)

\* The table of names as a fixture: each name with the positions of its bits,
\* in the order of the table.
NameFixture ==
    <<[name |-> "I2C", bits |-> {0}],
      [name |-> "10-bit address", bits |-> {1}],
      [name |-> "Protocol mangling", bits |-> {2}],
      [name |-> "SMBus PEC", bits |-> {3}],
      [name |-> "No start", bits |-> {4}],
      [name |-> "Slave", bits |-> {5}],
      [name |-> "Block procedure call", bits |-> {15}],
      [name |-> "Quick", bits |-> {16}],
      [name |-> "Read byte", bits |-> {17}],
      [name |-> "Write byte", bits |-> {18}],
      [name |-> "Read byte data", bits |-> {19}],
      [name |-> "Write byte data", bits |-> {20}],
      [name |-> "Read word data", bits |-> {21}],
      [name |-> "Write word data", bits |-> {22}],
      [name |-> "Procedure call", bits |-> {23}],
      [name |-> "Read block data", bits |-> {24}],
      [name |-> "Write block data", bits |-> {25}],
      [name |-> "Read I2C block", bits |-> {26}],
      [name |-> "Write I2C block", bits |-> {27}],
      [name |-> "Host notify", bits |-> {28}],
      [name |-> "Byte", bits |-> {17, 18}],
      [name |-> "Byte data", bits |-> {19, 20}],
      [name |-> "Word data", bits |-> {21, 22}],
      [name |-> "Block data", bits |-> {24, 25}],
      [name |-> "I2C block", bits |-> {26, 27}],
      [name |-> "Emulated", bits |-> {3} \cup (16..23) \cup {25, 26, 27}]>>

\* The names a list holds.
NamesIn(list) == {list[i] : i \in 1..Len(list)}

\* The name of the single flag at bit position i.
SingleName(i) ==
    NameFixture[CHOOSE k \in 1..Len(NameFixture) : NameFixture[k].bits = {i}].name

\* C14: GetStringsList returns exactly the names of the table entries whose
\* bits are all set in the value, each once, in table order; a composite name
\* is in the list iff the names of all its member flags are; bits that no
\* entry names add nothing.
C14_GetStringsList ==
    last.op = "GetStringsList"
    => LET f == last.pre.Funcs
           present == SelectSeq(NameFixture,
                                LAMBDA e : \A i \in e.bits : HasBit(f, i))
           names == last.retData
       IN /\ names = [k \in 1..Len(present) |-> present[k].name]
          /\ \A j, k \in 1..Len(names) : names[j] = names[k] => j = k
          /\ \A k \in 1..Len(NameFixture) :
                Cardinality(NameFixture[k].bits) > 1
                => (NameFixture[k].name \in NamesIn(names)
                    <=> \A i \in NameFixture[k].bits :
                            SingleName(i) \in NamesIn(names))

\* C14 witness: a value with both byte flags and a bit outside the table
\* lists "Read byte", "Write byte" and "Byte", and nothing else.
C14_Witness ==
    /\ last.op = "GetStringsList"
    /\ HasBit(last.pre.Funcs, 6)
    /\ last.retData = <<"Read byte", "Write byte", "Byte">>

\* The last operation is one that touches the bus: a transaction, an EnablePEC
\* on a handle with the PEC bit, or a raw transfer.
TouchesBus ==
    \/ last.op \in TxOps
    \/ last.op = "EnablePEC" /\ HadPECBit
    \/ last.op = "I2CRdWr"

\* The last operation's target differs from the pair that was in the cache.
DiffersFromCache ==
    last.address # last.pre.address \/ last.pre.Force # last.pre.prevForce

\* C15 as stated: every operation that touches the bus issues exactly one
\* kernel call, also when the address or Force differs from the cached pair.
C15_ExactlyOneKernelCall == TouchesBus => Len(last.calls) = 1

\* C15 as amended: a transaction issues at most two kernel calls: one select
\* call first, iff its address or Force differs from the cached pair and it
\* was not rejected for its length before address selection, and then one
\* submit call, iff it was not rejected for its length and no select call
\* failed; EnablePEC on a handle with the PEC bit issues exactly one call, and
\* I2CRdWr exactly one for a list that is not empty and has no empty buffer,
\* none otherwise.
C15_KernelCalls ==
    /\ last.op \in TxOps
       => /\ last.calls = SelectCalls \o SubmitCalls
          /\ Len(SelectCalls) <= 1 /\ Len(SubmitCalls) <= 1
          /\ Len(SelectCalls) = 1
             <=> (DiffersFromCache
                  /\ ~(last.op \in {"ReadI2CBlockData", "WriteI2CBlockData"}
                       /\ last.err = "length"))
          /\ Len(SubmitCalls) = 1 <=> (last.err # "length" /\ ~SelectFailed)
    /\ (last.op = "EnablePEC" /\ HadPECBit)
       => Len(last.calls) = 1 /\ last.calls[1].cmd = I2CPEC
    /\ last.op = "I2CRdWr"
       => IF /\ Len(last.messages) > 0
             /\ \A i \in 1..Len(last.messages) : Len(last.messages[i].Buffer) > 0
          THEN Len(last.calls) = 1 /\ last.calls[1].cmd = I2CRDWR
          ELSE last.calls = <<>>

\* C15 witness: a successful transaction to an address other than the cached
\* one has issued two kernel calls, the select call and the submit call.
C15_Witness ==
    /\ last.op \in TxOps /\ last.err = "nil" /\ last.address # last.pre.address
    /\ Len(last.calls) = 2
    /\ last.calls[1].cmd \in SelectCmds /\ last.calls[2].cmd = I2CSMBus

\* C16: when the submit call of a transaction fails, the operation returns an
\* error, the failed call is its last kernel call and its only submit call,
\* the cached address and last-applied-force flag are what they were just
\* before that call (the transaction's own pair), and on an open handle this
\* is the pair the kernel holds from the last successful select call.
C16_FailedSubmit ==
    (last.op \in TxOps /\ SubmitCalls # <<>> /\ ~SubmitCalls[1].ok)
    => /\ last.err # "nil"
       /\ Len(SubmitCalls) = 1
       /\ last.calls[Len(last.calls)].cmd = I2CSMBus
       /\ IF SelectCalls = <<>> THEN CacheUnchanged
          ELSE bus.address = last.address /\ bus.prevForce = last.pre.Force
       /\ ~last.closed
          => /\ kern.sel = [addr |-> bus.address, mode |-> ModeOf(bus.prevForce)]
             /\ SubmitCalls[1].sel = kern.sel

\* The size tag of each transaction kind.
KindOf(op) ==
    CASE op = "WriteQuick" -> I2CSMBusQuick
      [] op \in {"ReadByte", "WriteByte"} -> I2CSMBusByte
      [] op \in {"ReadByteData", "WriteByteData"} -> I2CSMBusByteData
      [] op \in {"ReadWordData", "WriteWordData"} -> I2CSMBusWordData
      [] op = "ProcessCall" -> I2CSMBusProcCall
      [] op \in {"ReadBlockData", "WriteBlockData"} -> I2CSMBusBlockData
      [] op = "BlockProcessCall" -> I2CSMBusBlockProcCall
      [] op \in {"ReadI2CBlockData", "WriteI2CBlockData"} -> I2CSMBusI2CBlockData

ReadOps ==
    {"ReadByte", "ReadByteData", "ReadWordData", "ReadBlockData",
     "ReadI2CBlockData"}

\* The size tag and the direction of the block the last transaction submitted.
KindAndDirection ==
    /\ SubmitCalls[1].block.size = KindOf(last.op)
    /\ SubmitCalls[1].block.read_write
         = IF last.op \in ReadOps THEN I2CSMBusRead ELSE I2CSMBusWrite

\* C18 as stated: the submitted control block has the size tag of its kind,
\* direction read for the Read* operations and write for the others, the
\* register as command byte for the register-addressed kinds and zero for
\* WriteQuick, ReadByte and WriteByte, and the value of a WriteByte as byte 0
\* of the payload.
C18_ControlBlockOriginal ==
    (last.op \in TxOps /\ SubmitCalls # <<>>)
    => /\ KindAndDirection
       /\ SubmitCalls[1].block.command
            = IF last.op \in {"WriteQuick", "ReadByte", "WriteByte"}
              THEN 0 ELSE last.register
       /\ last.op = "WriteByte" => SubmitCalls[1].block.data[1] = last.value

\* C18 as amended: as stated for the size tag, the direction and the command
\* byte of the register-addressed kinds, WriteQuick and ReadByte; a WriteByte
\* carries its value in the command byte and an all-zero payload.
C18_ControlBlock ==
    (last.op \in TxOps /\ SubmitCalls # <<>>)
    => /\ KindAndDirection
       /\ SubmitCalls[1].block.command
            = IF last.op \in {"WriteQuick", "ReadByte"} THEN 0
              ELSE IF last.op = "WriteByte" THEN last.value
              ELSE last.register
       /\ last.op = "WriteByte"
          => \A i \in 1..Len(SubmitCalls[1].block.data) :
                SubmitCalls[1].block.data[i] = 0

\* C18 witness: a WriteByte of a value other than zero was submitted with the
\* value as command byte.
C18_Witness ==
    /\ last.op = "WriteByte" /\ last.value # 0 /\ last.err = "nil"
    /\ Len(SubmitCalls) = 1
    /\ SubmitCalls[1].block.command = last.value
    /\ SubmitCalls[1].block.data[1] = 0

\* C19: ReadI2CBlockData for n <= 32 bytes submits an I2C-block read whose
\* byte 0 is n and, when it succeeds, returns exactly n bytes, bytes 1..n of
\* the response, whatever the response's byte 0 is.
C19_ReadI2CBlockData ==
    (last.op = "ReadI2CBlockData" /\ last.length <= 32)
    => /\ last.err # "length"
       /\ SubmitCalls # <<>>
          => /\ SubmitCalls[1].block.size = I2CSMBusI2CBlockData
             /\ SubmitCalls[1].block.read_write = I2CSMBusRead
             /\ SubmitCalls[1].block.data[1] = last.length
       /\ last.err = "nil"
          => /\ Len(SubmitCalls) = 1
             /\ Len(last.retData) = last.length
             /\ \A i \in 1..last.length : last.retData[i] = last.resp[i + 1]

\* C19 witness: 32 bytes were asked for and returned although the kernel left
\* 0 in the response's length byte.
C19_Witness ==
    /\ last.op = "ReadI2CBlockData" /\ last.length = 32 /\ last.err = "nil"
    /\ last.resp[1] = 0 /\ Len(last.retData) = 32
    /\ last.retData[32] = last.resp[33]

\* The last control block submitted by a goroutine went out while the kernel
\* held the other goroutine's address as the selected one.
Misdirected ==
    \E t, u \in Threads :
        /\ t # u
        /\ thr.submit.thread = t
        /\ thr.submit.sel.addr = TargetOf(u)

\* C17: with two goroutines calling transactions to different addresses on
\* one handle, no control block is submitted under the other goroutine's
\* address when every operation runs inside one mutex; without the mutex such
\* a submit is reachable (the witness).
C17_MutexKeepsAddress == thr.sync => ~Misdirected

\* C17 witness: without the mutex, a goroutine's control block was submitted
\* and accepted while the kernel's selected address was the other's.
C17_Witness == ~thr.sync /\ Misdirected /\ thr.submit.ok
====
